---- MODULE Spec2Model ----
(***************************************************************************)
(* The TDD workflow of tdd_agents: TDDWorkflow.run() rotating the Tester,  *)
(* Implementer and Refactorer under SupervisorAgent.evaluate_progress.     *)
(*                                                                         *)
(* A Python string is a sequence of phrases (a phrase is a run of          *)
(* characters kept whole); str.lower() maps every phrase to its lower-case *)
(* form and "x in s" asks whether phrase x occurs in s.                    *)
(***************************************************************************)
EXTENDS Integers, Sequences, FiniteSets, TLC

VARIABLES
    current_agent,      \* TDDWorkflow.current_agent
    cycle_count,        \* TDDWorkflow.cycle_count
    max_cycles,         \* TDDWorkflow.max_cycles
    agent_penalties,    \* SupervisorAgent.agent_penalties
    pc,                 \* position of run(): constructed, loop, run_agent,
                        \* evaluate, check_stop, return, returned
    outcome,            \* (success, result) of _run_current_agent
    evaluation,         \* the dict evaluate_progress returned last
    returned,           \* the dict run() returned
    eval_in,            \* history: the arguments of the last evaluate_progress
    penalties_before,   \* history: agent_penalties when that call began
    invocations,        \* history: role invocations made by run()
    refactorer_retries, \* history: retries the Supervisor has granted the
                        \* Refactorer in a row, up to now
    refactorer_failures, \* history: failed Refactorer cycles in a row, up to now
    enable_git_staging, \* Config.enable_git_staging
    ops,                \* history: the collaborator calls of the latest role
                        \* invocation, in order, each with how it ended
    failed_cycles,      \* history: the cycles of the run that failed, up to now
    verbose,            \* self.verbose
    printed,            \* history: the kinds of lines the workflow has printed
    entered_by,         \* history: the action of the Transition that led to
                        \* the cycle
    global_config,      \* config._global_config
    got,                \* history: what the latest get_config() returned
    cli                 \* cli.main: the arguments it was called with and how
                        \* far it has come

vars == <<current_agent, cycle_count, max_cycles, agent_penalties, pc, outcome,
          evaluation, returned, eval_in, penalties_before, invocations,
          refactorer_retries, refactorer_failures, enable_git_staging, ops,
          failed_cycles, verbose, printed, entered_by, global_config, got, cli>>

\* the state of the config module and of cli.main
cli_vars == <<global_config, got, cli>>

---------------------------------------------------------------------------
\* Bounds of the model.

\* the largest max_cycles a run is started with
MaxCycles == 6

\* the longest exception message, in phrases
MaxMsgLen == 1

\* the most penalties a role collects when the Supervisor is called directly
MaxPenalty == 3

\* the most retries in a row when the Supervisor is called directly
MaxRetriesInARow == 4

---------------------------------------------------------------------------
\* Strings.

\* the phrases of different case an exception message is made of
MsgPhrases ==
    {"already passes", "Already Passes", "too much code", "Too Much Code", "boom"}

\* str.lower() on one phrase
LowerPhrase(p) ==
    CASE p = "Already Passes" -> "already passes"
      [] p = "Too Much Code" -> "too much code"
      [] p = "Test" -> "test"
      [] p = "Unknown failure" -> "unknown failure"
      [] p = "Agent execution error:" -> "agent execution error:"
      [] p = "No test file found to implement against"
            -> "no test file found to implement against"
      [] p = "Could not read test file:" -> "could not read test file:"
      [] p = "Tests still failing after implementation"
            -> "tests still failing after implementation"
      [] p = "Tests failing before refactoring - cannot proceed"
            -> "tests failing before refactoring - cannot proceed"
      [] p = "Tests failing after refactoring" -> "tests failing after refactoring"
      [] OTHER -> p

\* failure_reason.lower()
lower(s) == [i \in 1..Len(s) |-> LowerPhrase(s[i])]

\* "phrase in s"
contains(s, phrase) == \E i \in 1..Len(s) : s[i] = phrase

\* every string of at most n phrases of MsgPhrases
StringsUpTo(n) == UNION {[1..k -> MsgPhrases] : k \in 0..n}

\* str(e) of the exceptions a collaborator raises
Messages == StringsUpTo(MaxMsgLen)

\* the failure reasons the workflow words itself
WorkflowReasons ==
    {<<"Test", "already passes", "- not a proper failing test">>,
     <<"No test file found to implement against">>,
     <<"Tests still failing after implementation">>,
     <<"Tests failing before refactoring - cannot proceed">>,
     <<"Tests failing after refactoring">>}

\* a dict of keyword arguments: the keys it holds and the value of failure_reason
Kwargs(keys, failure_reason) == [keys |-> keys, failure_reason |-> failure_reason]

\* kwargs.get("failure_reason", default)
kwargs_get(kwargs, default) ==
    IF "failure_reason" \in kwargs.keys THEN kwargs.failure_reason ELSE default

---------------------------------------------------------------------------
\* SupervisorAgent.

Roles == {"tester", "implementer", "refactorer"}

\* the directory every call is given
work_dir == "work_dir"

\* SupervisorAgent.__init__: no penalties
InitialPenalties == [r \in Roles |-> 0]

agent_cycle == <<"tester", "implementer", "refactorer">>

\* a faulty variant: the Supervisor takes a turn of its own in the cycle
get_next_agent_four(agent) ==
    CASE agent = "tester" -> "implementer"
      [] agent = "implementer" -> "refactorer"
      [] agent = "refactorer" -> "supervisor"
      [] OTHER -> "tester"

\* a faulty variant: the index is not advanced
get_next_agent_stuck(agent) ==
    IF \E i \in 1..Len(agent_cycle) : agent_cycle[i] = agent
    THEN agent
    ELSE "tester"

\* a faulty variant: the index is stepped backwards
get_next_agent_backwards(agent) ==
    CASE agent = "tester" -> "refactorer"
      [] agent = "implementer" -> "tester"
      [] agent = "refactorer" -> "implementer"
      [] OTHER -> "tester"

\* _get_next_agent (the list index is 0-based)
get_next_agent(agent) ==
    IF \E i \in 1..Len(agent_cycle) : agent_cycle[i] = agent
    THEN LET current_index == (CHOOSE i \in 1..Len(agent_cycle) : agent_cycle[i] = agent) - 1
             next_index == (current_index + 1) % Len(agent_cycle)
         IN agent_cycle[next_index + 1]
    ELSE "tester"

\* a faulty variant: the table is built anew at every failure
apply_penalty_anew(penalties, agent_name, failure_reason) ==
    IF agent_name \in DOMAIN penalties
    THEN IF contains(lower(failure_reason), "too much code")
         THEN [[r \in DOMAIN penalties |-> 0] EXCEPT !["implementer"] = penalties["implementer"] + 1]
         ELSE [[r \in DOMAIN penalties |-> 0] EXCEPT ![agent_name] = penalties[agent_name] + 1]
    ELSE penalties

\* a faulty variant: every failure is charged to the agent that failed
apply_penalty_own(penalties, agent_name, failure_reason) ==
    IF agent_name \in DOMAIN penalties
    THEN [penalties EXCEPT ![agent_name] = @ + 1]
    ELSE penalties

\* a faulty variant: a test that already passes is charged to the Implementer
apply_penalty_overproduction(penalties, agent_name, failure_reason) ==
    IF agent_name \in DOMAIN penalties
    THEN IF \/ contains(lower(failure_reason), "too much code")
            \/ contains(lower(failure_reason), "already passes")
         THEN [penalties EXCEPT !["implementer"] = @ + 1]
         ELSE [penalties EXCEPT ![agent_name] = @ + 1]
    ELSE penalties

\* a faulty variant: too much code is charged to the Implementer and to the
\* agent that failed
apply_penalty_both(penalties, agent_name, failure_reason) ==
    IF agent_name \in DOMAIN penalties
    THEN IF contains(lower(failure_reason), "too much code")
         THEN [[penalties EXCEPT !["implementer"] = @ + 1]
                  EXCEPT ![agent_name] = @ + 1]
         ELSE [penalties EXCEPT ![agent_name] = @ + 1]
    ELSE penalties

\* _apply_penalty: the penalty table after the call
apply_penalty(penalties, agent_name, failure_reason) ==
    IF agent_name \in DOMAIN penalties
    THEN IF contains(lower(failure_reason), "too much code")
         THEN [penalties EXCEPT !["implementer"] = @ + 1]
         ELSE [penalties EXCEPT ![agent_name] = @ + 1]
    ELSE penalties

\* a faulty variant: the retries granted in a row are counted
get_retry_count_counted(dir, agent_name) == refactorer_retries

\* _get_retry_count: "for now" the default value
get_retry_count(dir, agent_name) == 0

\* the bound of "if retry_count < 3"
MaxRetries == 3

\* a faulty variant: a failed Tester is sent to the Refactorer whatever the reason
tester_failure_overcoded(failure_reason) ==
    [agent |-> "refactorer", action |-> "refactor",
     reason |-> <<"Tester wrote test that already passes, indicating implementer overcoded. Refactoring needed.">>]

\* a faulty variant: a failed Tester is retried whatever the reason
tester_failure_retry(failure_reason) ==
    [agent |-> "tester", action |-> "retry",
     reason |-> <<"Tester failed to write appropriate failing test.">>]

\* _decide_next_action, failed_agent == "tester"
tester_failure(failure_reason) ==
    IF contains(lower(failure_reason), "already passes")
    THEN [agent |-> "refactorer", action |-> "refactor",
          reason |-> <<"Tester wrote test that already passes, indicating implementer overcoded. Refactoring needed.">>]
    ELSE [agent |-> "tester", action |-> "retry",
          reason |-> <<"Tester failed to write appropriate failing test.">>]

\* a faulty variant: a failed Implementer tries again
implementer_failure_retry ==
    [agent |-> "implementer", action |-> "retry",
     reason |-> <<"Implementer failed to make test pass. Retrying.">>]

\* a faulty variant: a failed Implementer reverts and tries again
implementer_failure_again ==
    [agent |-> "implementer", action |-> "revert_and_retry",
     reason |-> <<"Implementer should revert and try again.">>]

\* _decide_next_action, failed_agent == "implementer"
implementer_failure ==
    [agent |-> "refactorer", action |-> "prep_refactor",
     reason |-> <<"Implementer failed to make test pass. Refactorer should prepare code structure first.">>]

\* _decide_next_action, failed_agent == "refactorer"
refactorer_failure(dir) ==
    LET retry_count == get_retry_count(dir, "refactorer")
    IN IF retry_count < MaxRetries
       THEN [agent |-> "refactorer", action |-> "retry",
             reason |-> <<"Refactorer failed but under retry limit (",
                          ToString(retry_count), "/3). Retrying.">>]
       ELSE [agent |-> "implementer", action |-> "revert_and_retry",
             reason |-> <<"Refactorer exhausted retries. Implementer should revert and try again.">>]

\* a faulty variant: a role that has collected 2 penalties stops the run
decide_next_action_gated(failed_agent, failure_reason, dir) ==
    IF failed_agent \in Roles /\ agent_penalties[failed_agent] >= 2
    THEN [agent |-> failed_agent, action |-> "stop",
          reason |-> <<"Too many penalties. Stopping.">>]
    ELSE CASE failed_agent = "tester" -> tester_failure(failure_reason)
           [] failed_agent = "implementer" -> implementer_failure
           [] failed_agent = "refactorer" -> refactorer_failure(dir)
           [] OTHER ->
                [agent |-> "tester", action |-> "continue",
                 reason |-> <<"Default fallback action after failure.">>]

\* a faulty variant: a failure of an agent that is no role stops the run
decide_next_action_stop(failed_agent, failure_reason, dir) ==
    CASE failed_agent = "tester" -> tester_failure(failure_reason)
      [] failed_agent = "implementer" -> implementer_failure
      [] failed_agent = "refactorer" -> refactorer_failure(dir)
      [] OTHER ->
           [agent |-> "tester", action |-> "stop",
            reason |-> <<"Default fallback action after failure.">>]

\* a faulty variant: an agent that is no role is asked to go on itself
decide_next_action_same(failed_agent, failure_reason, dir) ==
    CASE failed_agent = "tester" -> tester_failure(failure_reason)
      [] failed_agent = "implementer" -> implementer_failure
      [] failed_agent = "refactorer" -> refactorer_failure(dir)
      [] OTHER ->
           [agent |-> failed_agent, action |-> "retry",
            reason |-> <<"Default fallback action after failure.">>]

\* _decide_next_action
decide_next_action(failed_agent, failure_reason, dir) ==
    CASE failed_agent = "tester" -> tester_failure(failure_reason)
      [] failed_agent = "implementer" -> implementer_failure
      [] failed_agent = "refactorer" -> refactorer_failure(dir)
      [] OTHER ->
           [agent |-> "tester", action |-> "continue",
            reason |-> <<"Default fallback action after failure.">>]

\* a faulty variant: a success costs the role that hands over a penalty
evaluate_progress_charging(penalties, agent_name, success, dir, kwargs) ==
    IF success
    THEN LET next_agent == get_next_agent(agent_name)
         IN [ret |-> [keys |-> {"success", "next_agent", "message", "action"},
                      success |-> TRUE,
                      next_agent |-> next_agent,
                      message |-> <<agent_name, "completed successfully. Handing over to",
                                    next_agent, ".">>,
                      action |-> "continue",
                      failure_reason |-> <<>>],
             agent_penalties |-> apply_penalty(penalties, agent_name, <<>>)]
    ELSE LET failure_reason == kwargs_get(kwargs, <<"Unknown failure">>)
             next_action == decide_next_action(agent_name, failure_reason, dir)
         IN [ret |-> [keys |-> {"success", "next_agent", "message", "action",
                                "failure_reason"},
                      success |-> FALSE,
                      next_agent |-> next_action.agent,
                      message |-> <<agent_name, "failed:">> \o failure_reason
                                  \o <<". Supervisor action:">> \o next_action.reason,
                      action |-> next_action.action,
                      failure_reason |-> failure_reason],
             agent_penalties |-> apply_penalty(penalties, agent_name, failure_reason)]

\* evaluate_progress: the dict it returns (ret) and the penalty table it leaves
evaluate_progress(penalties, agent_name, success, dir, kwargs) ==
    IF success
    THEN LET next_agent == get_next_agent(agent_name)
         IN [ret |-> [keys |-> {"success", "next_agent", "message", "action"},
                      success |-> TRUE,
                      next_agent |-> next_agent,
                      message |-> <<agent_name, "completed successfully. Handing over to",
                                    next_agent, ".">>,
                      action |-> "continue",
                      failure_reason |-> <<>>],
             agent_penalties |-> penalties]
    ELSE LET failure_reason == kwargs_get(kwargs, <<"Unknown failure">>)
             next_action == decide_next_action(agent_name, failure_reason, dir)
         IN [ret |-> [keys |-> {"success", "next_agent", "message", "action",
                                "failure_reason"},
                      success |-> FALSE,
                      next_agent |-> next_action.agent,
                      message |-> <<agent_name, "failed:">> \o failure_reason
                                  \o <<". Supervisor action:">> \o next_action.reason,
                      action |-> next_action.action,
                      failure_reason |-> failure_reason],
             agent_penalties |-> apply_penalty(penalties, agent_name, failure_reason)]

---------------------------------------------------------------------------
\* The role invocations of TDDWorkflow. The collaborators (code generation,
\* the file system, the test command) answer as env says.

\* how a run of the test command ends
TestRuns == {"pass", "fail", "timeout", "crash"}

\* a faulty variant: a run that timed out or crashed is not told from one
\* that passed
run_tests_lost(test_run) ==
    [success |-> test_run # "fail",
     returncode |-> IF test_run \in {"timeout", "crash"} THEN -1
                    ELSE IF test_run = "pass" THEN 0 ELSE 1]

\* _run_tests and the agents' run_tests: the result dict
run_tests(test_run) ==
    [success |-> test_run = "pass",
     returncode |-> IF test_run \in {"timeout", "crash"} THEN -1
                    ELSE IF test_run = "pass" THEN 0 ELSE 1]

\* one collaborator call and how it ended: "ok", "raised", the way a test run
\* ended, or what the search for a test file gave
Op(name, result) == [op |-> name, result |-> result]

\* a call that raises when env says so
Call(name, env) == Op(name, IF env.exc = name THEN "raised" ELSE "ok")

\* how a git command ends: exit status 0, another exit status, or an exception
\* of subprocess.run
GitRuns == {"ok", "nonzero", "error"}

\* _stage_file: the exception is passed over, the exit status is not looked at
stage_file(env) == Op("stage", env.git)

\* _commit_changes: the exception is passed over, the exit status is not
\* looked at
commit_changes(env) == Op("commit", env.git)

\* _initialize_git_repo: git init, git add and git commit are run when
\* git rev-parse raised, and an exception among them ends the three
initialize_git_repo(rev_parse, init) ==
    <<Op("git rev-parse", rev_parse)>>
    \o (IF rev_parse # "error" THEN <<>>
        ELSE IF init = "error" THEN <<Op("git init", init)>>
        ELSE <<Op("git init", init), Op("git add", init), Op("git commit", init)>>)

\* a role procedure ends by raising ...
Raise(msg, called) ==
    [raised |-> TRUE, msg |-> msg, success |-> FALSE, result |-> Kwargs({}, <<>>),
     ops |-> called]

\* ... or by returning (success, result)
Return(success, result, called) ==
    [raised |-> FALSE, msg |-> <<>>, success |-> success, result |-> result,
     ops |-> called]

\* what the collaborators of a Tester cycle may do
TesterEnvs ==
    {[exc |-> "none", msg |-> <<>>, test_run |-> "pass", git |-> "ok"]}
    \cup {[exc |-> "none", msg |-> <<>>, test_run |-> t, git |-> g] :
            t \in TestRuns \ {"pass"}, g \in GitRuns}
    \cup {[exc |-> x, msg |-> m, test_run |-> "fail", git |-> "ok"] :
            x \in {"write_test", "save_test"}, m \in Messages}

\* a faulty variant: a test that passes counts as the Tester's success
run_tester_agent_green(env, staging) ==
    LET called == <<Call("write_test", env), Call("save_test", env),
                    Op("run_tests", env.test_run)>>
    IN IF env.exc = "write_test" THEN Raise(env.msg, SubSeq(called, 1, 1))
       ELSE IF env.exc = "save_test" THEN Raise(env.msg, SubSeq(called, 1, 2))
       ELSE IF run_tests(env.test_run).success
       THEN Return(TRUE, Kwargs({"test_file", "test_result"}, <<>>),
                   IF staging THEN called \o <<stage_file(env)>> ELSE called)
       ELSE Return(FALSE, Kwargs({"failure_reason", "test_file", "test_result"},
                                 <<"Test", "does not pass">>),
                   called)

\* a faulty variant: a test file that could not be staged fails the cycle
run_tester_agent_strict(env, staging) ==
    LET called == <<Call("write_test", env), Call("save_test", env),
                    Op("run_tests", env.test_run)>>
    IN IF env.exc = "write_test" THEN Raise(env.msg, SubSeq(called, 1, 1))
       ELSE IF env.exc = "save_test" THEN Raise(env.msg, SubSeq(called, 1, 2))
       ELSE IF run_tests(env.test_run).success
       THEN Return(FALSE,
                   Kwargs({"failure_reason", "test_file", "test_result"},
                          <<"Test", "already passes", "- not a proper failing test">>),
                   called)
       ELSE IF staging /\ env.git # "ok"
       THEN Return(FALSE, Kwargs({"failure_reason", "test_file", "test_result"},
                                 <<"Could not stage the test file">>),
                   called \o <<stage_file(env)>>)
       ELSE Return(TRUE, Kwargs({"test_file", "test_result"}, <<>>),
                   IF staging THEN called \o <<stage_file(env)>> ELSE called)

\* _run_tester_agent
run_tester_agent(env, staging) ==
    LET called == <<Call("write_test", env), Call("save_test", env),
                    Op("run_tests", env.test_run)>>
    IN IF env.exc = "write_test" THEN Raise(env.msg, SubSeq(called, 1, 1))
       ELSE IF env.exc = "save_test" THEN Raise(env.msg, SubSeq(called, 1, 2))
       ELSE LET test_result == run_tests(env.test_run)
            IN IF test_result.success
               THEN Return(FALSE,
                           Kwargs({"failure_reason", "test_file", "test_result"},
                                  <<"Test", "already passes",
                                    "- not a proper failing test">>),
                           called)
               ELSE Return(TRUE, Kwargs({"test_file", "test_result"}, <<>>),
                           IF staging THEN called \o <<stage_file(env)>>
                           ELSE called)

\* what the collaborators of an Implementer cycle may do
ImplementerEnvs ==
    {[exc |-> "none", msg |-> <<>>, test_file |-> "None", test_run |-> "fail",
      git |-> "ok"]}
    \cup {[exc |-> "none", msg |-> <<>>, test_file |-> "tests/test_next.py",
           test_run |-> t, git |-> "ok"] : t \in TestRuns \ {"pass"}}
    \cup {[exc |-> "none", msg |-> <<>>, test_file |-> "tests/test_next.py",
           test_run |-> "pass", git |-> g] : g \in GitRuns}
    \cup {[exc |-> x, msg |-> m, test_file |-> "tests/test_next.py",
           test_run |-> "fail", git |-> "ok"] :
            x \in {"find_latest_test_file", "open", "implement_solution",
                   "save_implementation"},
            m \in Messages}

\* a faulty variant: the implementation is written before a test file is looked for
run_implementer_agent_eager(env, staging) ==
    LET find == Op("find_latest_test_file",
                   IF env.exc = "find_latest_test_file" THEN "raised"
                   ELSE IF env.test_file = "None" THEN "None" ELSE "found")
        called == <<Call("implement_solution", env), Call("save_implementation", env),
                    find, Call("open", env), Op("run_tests", env.test_run)>>
    IN IF env.exc = "implement_solution" THEN Raise(env.msg, SubSeq(called, 1, 1))
       ELSE IF env.exc = "save_implementation" THEN Raise(env.msg, SubSeq(called, 1, 2))
       ELSE IF env.exc = "find_latest_test_file" THEN Raise(env.msg, SubSeq(called, 1, 3))
       ELSE IF env.test_file = "None"
       THEN Return(FALSE, Kwargs({"failure_reason"},
                                 <<"No test file found to implement against">>),
                   SubSeq(called, 1, 3))
       ELSE IF env.exc = "open"
       THEN Return(FALSE, Kwargs({"failure_reason"},
                                 <<"Could not read test file:">> \o env.msg),
                   SubSeq(called, 1, 4))
       ELSE IF run_tests(env.test_run).success
       THEN Return(TRUE, Kwargs({"implementation_file", "test_result"}, <<>>),
                   IF staging
                   THEN called \o <<stage_file(env), commit_changes(env)>>
                   ELSE called)
       ELSE Return(FALSE, Kwargs({"failure_reason", "implementation_file",
                                  "test_result"},
                                 <<"Tests still failing after implementation">>),
                   called)

\* _run_implementer_agent
run_implementer_agent(env, staging) ==
    LET find == Op("find_latest_test_file",
                   IF env.exc = "find_latest_test_file" THEN "raised"
                   ELSE IF env.test_file = "None" THEN "None" ELSE "found")
        called == <<find, Call("open", env), Call("implement_solution", env),
                    Call("save_implementation", env), Op("run_tests", env.test_run)>>
    IN IF env.exc = "find_latest_test_file" THEN Raise(env.msg, SubSeq(called, 1, 1))
       ELSE IF env.test_file = "None"
       THEN Return(FALSE, Kwargs({"failure_reason"},
                                 <<"No test file found to implement against">>),
                   SubSeq(called, 1, 1))
       ELSE IF env.exc = "open"
       THEN Return(FALSE, Kwargs({"failure_reason"},
                                 <<"Could not read test file:">> \o env.msg),
                   SubSeq(called, 1, 2))
       ELSE IF env.exc = "implement_solution" THEN Raise(env.msg, SubSeq(called, 1, 3))
       ELSE IF env.exc = "save_implementation" THEN Raise(env.msg, SubSeq(called, 1, 4))
       ELSE LET test_result == run_tests(env.test_run)
            IN IF test_result.success
               THEN Return(TRUE, Kwargs({"implementation_file", "test_result"}, <<>>),
                           IF staging
                           THEN called \o <<stage_file(env), commit_changes(env)>>
                           ELSE called)
               ELSE Return(FALSE, Kwargs({"failure_reason", "implementation_file",
                                          "test_result"},
                                         <<"Tests still failing after implementation">>),
                           called)

\* what the collaborators of a Refactorer cycle may do
RefactorerEnvs ==
    {[exc |-> "none", msg |-> <<>>, test_run |-> t, test_run_after |-> "fail",
      git |-> "ok"] : t \in TestRuns \ {"pass"}}
    \cup {[exc |-> "none", msg |-> <<>>, test_run |-> "pass", test_run_after |-> u,
           git |-> "ok"] : u \in TestRuns \ {"pass"}}
    \cup {[exc |-> "none", msg |-> <<>>, test_run |-> "pass",
           test_run_after |-> "pass", git |-> g] : g \in GitRuns}
    \cup {[exc |-> x, msg |-> m, test_run |-> "pass", test_run_after |-> "fail",
           git |-> "ok"] :
            x \in {"refactor_code", "apply_refactoring"}, m \in Messages}

\* a faulty variant: the code is refactored whatever the first test run says,
\* and the second run alone decides
run_refactorer_agent_unchecked(env, staging) ==
    LET called == <<Op("run_tests", env.test_run), Call("refactor_code", env),
                    Call("apply_refactoring", env),
                    Op("run_tests", env.test_run_after)>>
    IN IF env.exc = "refactor_code" THEN Raise(env.msg, SubSeq(called, 1, 2))
       ELSE IF env.exc = "apply_refactoring" THEN Raise(env.msg, SubSeq(called, 1, 3))
       ELSE IF run_tests(env.test_run_after).success
       THEN Return(TRUE, Kwargs({"refactor_data", "test_result"}, <<>>),
                   IF staging THEN called \o <<commit_changes(env)>> ELSE called)
       ELSE Return(FALSE, Kwargs({"failure_reason", "refactor_data", "test_result"},
                                 <<"Tests failing after refactoring">>),
                   called)

\* a faulty variant: a refactoring that breaks the tests is accepted
run_refactorer_agent_lenient(env, staging) ==
    LET called == <<Op("run_tests", env.test_run), Call("refactor_code", env),
                    Call("apply_refactoring", env),
                    Op("run_tests", env.test_run_after)>>
    IN IF ~run_tests(env.test_run).success
       THEN Return(FALSE, Kwargs({"failure_reason", "test_result"},
                                 <<"Tests failing before refactoring - cannot proceed">>),
                   SubSeq(called, 1, 1))
       ELSE IF env.exc = "refactor_code" THEN Raise(env.msg, SubSeq(called, 1, 2))
       ELSE IF env.exc = "apply_refactoring" THEN Raise(env.msg, SubSeq(called, 1, 3))
       ELSE Return(TRUE, Kwargs({"refactor_data", "test_result"}, <<>>),
                   IF staging THEN called \o <<commit_changes(env)>> ELSE called)

\* _run_refactorer_agent
run_refactorer_agent(env, staging) ==
    LET called == <<Op("run_tests", env.test_run), Call("refactor_code", env),
                    Call("apply_refactoring", env),
                    Op("run_tests", env.test_run_after)>>
        test_result == run_tests(env.test_run)
    IN IF ~test_result.success
       THEN Return(FALSE, Kwargs({"failure_reason", "test_result"},
                                 <<"Tests failing before refactoring - cannot proceed">>),
                   SubSeq(called, 1, 1))
       ELSE IF env.exc = "refactor_code" THEN Raise(env.msg, SubSeq(called, 1, 2))
       ELSE IF env.exc = "apply_refactoring" THEN Raise(env.msg, SubSeq(called, 1, 3))
       ELSE LET test_result_after == run_tests(env.test_run_after)
            IN IF test_result_after.success
               THEN Return(TRUE, Kwargs({"refactor_data", "test_result"}, <<>>),
                           IF staging THEN called \o <<commit_changes(env)>>
                           ELSE called)
               ELSE Return(FALSE, Kwargs({"failure_reason", "refactor_data",
                                          "test_result"},
                                         <<"Tests failing after refactoring">>),
                           called)

\* the environments of the role that _run_current_agent dispatches to
Envs(agent) ==
    CASE agent = "implementer" -> ImplementerEnvs
      [] agent = "refactorer" -> RefactorerEnvs
      [] OTHER -> TesterEnvs

\* a faulty variant: a Refactorer that is to prepare the code is not held to
\* the first test run
dispatch_by_entry(agent, env, staging) ==
    CASE agent = "implementer" -> run_implementer_agent(env, staging)
      [] agent = "refactorer" ->
            IF entered_by = "prep_refactor"
            THEN run_refactorer_agent_unchecked(env, staging)
            ELSE run_refactorer_agent(env, staging)
      [] OTHER -> run_tester_agent(env, staging)

\* a faulty variant: the roles stage and commit whatever the configuration says
dispatch_staging(agent, env, staging) ==
    CASE agent = "implementer" -> run_implementer_agent(env, TRUE)
      [] agent = "refactorer" -> run_refactorer_agent(env, TRUE)
      [] OTHER -> run_tester_agent(env, TRUE)

\* the role procedure _run_current_agent dispatches to
dispatch(agent, env, staging) ==
    CASE agent = "implementer" -> run_implementer_agent(env, staging)
      [] agent = "refactorer" -> run_refactorer_agent(env, staging)
      [] OTHER -> run_tester_agent(env, staging)

\* a faulty variant: the except clause returns no failure_reason
run_current_agent_result_bare(agent, env, staging) ==
    LET r == dispatch(agent, env, staging)
    IN IF r.raised
       THEN [success |-> FALSE, result |-> Kwargs({}, <<>>), ops |-> r.ops]
       ELSE [success |-> r.success, result |-> r.result, ops |-> r.ops]

\* _run_current_agent: the dispatch and the except clause
run_current_agent_result(agent, env, staging) ==
    LET r == dispatch(agent, env, staging)
    IN IF r.raised
       THEN [success |-> FALSE,
             result |-> Kwargs({"failure_reason"},
                               <<"Agent execution error:">> \o r.msg),
             ops |-> r.ops]
       ELSE [success |-> r.success, result |-> r.result, ops |-> r.ops]

---------------------------------------------------------------------------
\* TDDWorkflow.

\* no dict yet
NoKwargs == Kwargs({}, <<>>)

NoOutcome == [success |-> FALSE, result |-> NoKwargs]

NoEvaluation ==
    [keys |-> {}, success |-> FALSE, next_agent |-> "", message |-> <<>>,
     action |-> "", failure_reason |-> <<>>]

NoReturn == [success |-> FALSE, cycles_completed |-> -1, final_agent |-> "",
             work_dir |-> ""]

NoCall == [agent_name |-> "", success |-> FALSE, kwargs |-> NoKwargs,
           retry_count |-> 0]

\* a Config instance: id tells instances of equal fields apart
Config(id, n, staging, verbose_output) ==
    [id |-> id, max_tdd_cycles |-> n, enable_git_staging |-> staging,
     verbose_output |-> verbose_output]

\* _global_config = None
NoConfig == Config(-1, 0, FALSE, FALSE)

\* no get_config() and no set_config() so far
NoGot == [returned |-> NoConfig, given |-> NoConfig, set_after_get |-> FALSE]

\* the value of an option that was not given, and of one that was
Absent == <<>>

Given(v) == <<v>>

\* main has not been called
NoCli ==
    [status |-> "none", exit_code |-> -1, workflows |-> 0,
     args |-> [kata_file |-> "", work_dir |-> "", dry_run |-> FALSE,
               max_cycles |-> Absent, verbose |-> FALSE]]

\* TDDWorkflow.__init__ and SupervisorAgent.__init__, under a Config with
\* max_tdd_cycles = n, enable_git_staging = staging and verbose_output =
\* verbose_output
Constructed(n, staging, verbose_output) ==
    /\ current_agent = "tester"
    /\ cycle_count = 0
    /\ max_cycles = n
    /\ agent_penalties = InitialPenalties
    /\ pc = "constructed"
    /\ outcome = NoOutcome
    /\ evaluation = NoEvaluation
    /\ returned = NoReturn
    /\ eval_in = NoCall
    /\ penalties_before = InitialPenalties
    /\ invocations = 0
    /\ refactorer_retries = 0
    /\ refactorer_failures = 0
    /\ enable_git_staging = staging
    /\ ops = <<>>
    /\ failed_cycles = 0
    /\ verbose = verbose_output
    /\ printed = {}
    /\ entered_by = ""

\* a TDDWorkflow constructed under the Config that get_config() gave it
Init ==
    \E n \in -1..MaxCycles, staging \in BOOLEAN, verbose_output \in BOOLEAN :
        /\ Constructed(n, staging, verbose_output)
        /\ global_config = Config(0, n, staging, verbose_output)
        /\ got = [NoGot EXCEPT !.returned = global_config]
        /\ cli = NoCli

\* the history of the Refactorer's failures, after an evaluation
Recorded(agent_name, success, kwargs, e) ==
    /\ eval_in' = [agent_name |-> agent_name, success |-> success, kwargs |-> kwargs,
                   retry_count |-> refactorer_retries]
    /\ penalties_before' = agent_penalties
    /\ refactorer_retries' =
          IF agent_name = "refactorer" /\ ~success /\ e.ret.action = "retry"
          THEN refactorer_retries + 1 ELSE 0
    /\ refactorer_failures' =
          IF agent_name = "refactorer" /\ ~success
          THEN refactorer_failures + 1 ELSE 0

\* if self.verbose: print(...) in the source: what has been printed after lines of these
\* kinds
printed_after(kinds) == IF verbose THEN printed \cup kinds ELSE printed

\* run(), up to the loop: the opening lines and self._initialize_git_repo()
run_start ==
    /\ pc = "constructed"
    /\ printed' = printed_after({"start"})
    /\ \E rev_parse \in GitRuns, init \in GitRuns :
          /\ rev_parse # "error" => init = "ok"
          /\ ops' = initialize_git_repo(rev_parse, init)
    /\ pc' = "loop"
    /\ UNCHANGED <<current_agent, cycle_count, max_cycles, agent_penalties, outcome,
                   evaluation, returned, eval_in, penalties_before, invocations,
                   refactorer_retries, refactorer_failures,
                   enable_git_staging, failed_cycles, verbose, entered_by,
                   cli_vars>>

\* a faulty variant: one cycle too many
loop_condition_inclusive(count, bound) == count <= bound

\* while self.cycle_count < self.max_cycles
loop_condition(count, bound) == count < bound

\* the loop test, self.cycle_count += 1 and the banner of the cycle. The locals success, result and
\* evaluation of the iteration before are assigned before they are read
\* again: an iteration starts without them, and with an empty history of the
\* cycle.
loop_head ==
    /\ pc = "loop"
    /\ IF loop_condition(cycle_count, max_cycles)
       THEN /\ cycle_count' = cycle_count + 1
            /\ outcome' = NoOutcome
            /\ evaluation' = NoEvaluation
            /\ eval_in' = NoCall
            /\ penalties_before' = agent_penalties
            /\ ops' = <<>>
            /\ printed' = printed_after({"cycle"})
            /\ pc' = "run_agent"
       ELSE /\ pc' = "return"
            /\ UNCHANGED <<cycle_count, outcome, evaluation, eval_in,
                           penalties_before, ops, printed>>
    /\ UNCHANGED <<current_agent, max_cycles, agent_penalties, returned, invocations,
                   refactorer_retries, refactorer_failures, enable_git_staging,
                   failed_cycles, verbose, entered_by, cli_vars>>

\* success, result = self._run_current_agent(), with the lines the role
\* prints, and the line of the outcome
run_current_agent ==
    /\ pc = "run_agent"
    /\ LET agent == IF current_agent \in Roles THEN current_agent ELSE "tester"
       IN /\ current_agent' = agent
          /\ \E env \in Envs(agent) :
                LET r == run_current_agent_result(agent, env, enable_git_staging)
                IN /\ outcome' = [success |-> r.success, result |-> r.result]
                   /\ ops' = r.ops
    /\ invocations' = invocations + 1
    /\ printed' = printed_after({"role", "outcome"})
    /\ pc' = "evaluate"
    /\ UNCHANGED <<cycle_count, max_cycles, agent_penalties, evaluation, returned,
                   eval_in, penalties_before, refactorer_retries, refactorer_failures,
                   enable_git_staging, failed_cycles, verbose, entered_by, cli_vars>>

\* evaluation = self.supervisor.evaluate_progress(...) and the line of the
\* Supervisor's message
supervisor_evaluate ==
    /\ pc = "evaluate"
    /\ LET e == evaluate_progress(agent_penalties, current_agent, outcome.success,
                                  work_dir, outcome.result)
       IN /\ evaluation' = e.ret
          /\ agent_penalties' = e.agent_penalties
          /\ Recorded(current_agent, outcome.success, outcome.result, e)
    /\ failed_cycles' = IF outcome.success THEN failed_cycles ELSE failed_cycles + 1
    /\ printed' = printed_after({"supervisor"})
    /\ pc' = "check_stop"
    /\ UNCHANGED <<current_agent, cycle_count, max_cycles, outcome, returned,
                   invocations,
                   enable_git_staging, ops, verbose, entered_by, cli_vars>>

\* a faulty variant: the run ends when the roles have come round to the Tester
loop_break_full_cycle(success, ev, count) ==
    \/ ~success /\ ev.action = "stop"
    \/ ev.next_agent = "tester" /\ count > 1

\* a faulty variant: any failure ends the run
loop_break_on_failure(success, ev, count) == ~success

\* a faulty variant: the action "stop" ends the run after a success too
loop_break_any_stop(success, ev, count) == ev.action = "stop"

\* if not success and evaluation["action"] == "stop": break
loop_break(success, ev, count) == ~success /\ ev.action = "stop"

\* the stop check, self.current_agent = evaluation["next_agent"] and the line
\* of a full cycle
update_current_agent ==
    /\ pc = "check_stop"
    /\ IF loop_break(outcome.success, evaluation, cycle_count)
       THEN /\ printed' = printed_after({"stopped"})
            /\ pc' = "return"
            /\ UNCHANGED <<current_agent, entered_by>>
       ELSE /\ current_agent' = evaluation.next_agent
            /\ entered_by' = evaluation.action
            /\ printed' = IF evaluation.next_agent = "tester" /\ cycle_count > 1
                          THEN printed_after({"full cycle"}) ELSE printed
            /\ pc' = "loop"
    /\ UNCHANGED <<cycle_count, max_cycles, agent_penalties, outcome, evaluation,
                   returned, eval_in, penalties_before, invocations,
                   refactorer_retries, refactorer_failures,
                   enable_git_staging, ops, failed_cycles, verbose, cli_vars>>

\* the closing lines and return {...}
run_return ==
    /\ pc = "return"
    /\ printed' = printed_after({"completed"})
    /\ returned' = [success |-> TRUE, cycles_completed |-> cycle_count,
                    final_agent |-> current_agent, work_dir |-> work_dir]
    /\ pc' = "returned"
    /\ UNCHANGED <<current_agent, cycle_count, max_cycles, agent_penalties, outcome,
                   evaluation, eval_in, penalties_before, invocations,
                   refactorer_retries, refactorer_failures,
                   enable_git_staging, ops, failed_cycles, verbose, entered_by,
                   cli_vars>>

Next ==
    \/ run_start
    \/ loop_head
    \/ run_current_agent
    \/ supervisor_evaluate
    \/ update_current_agent
    \/ run_return

Spec == Init /\ [][Next]_vars

---------------------------------------------------------------------------
\* The Supervisor called directly, as its tests call it.

\* max_tdd_cycles of Config
DefaultMaxTddCycles == 20

\* the agent names a caller passes: the roles and one that is no role
AgentNames == Roles \cup {"supervisor"}

\* the keyword arguments a caller passes: a failure_reason or none
CallerKwargs ==
    {NoKwargs} \cup {Kwargs({"failure_reason"}, m) : m \in Messages \cup WorkflowReasons}

\* enable_git_staging of Config
DefaultEnableGitStaging == TRUE

\* verbose_output of Config
DefaultVerboseOutput == TRUE

SupInit ==
    /\ Constructed(DefaultMaxTddCycles, DefaultEnableGitStaging,
                   DefaultVerboseOutput)
    /\ global_config = NoConfig
    /\ got = NoGot
    /\ cli = NoCli

\* supervisor.evaluate_progress(agent_name, success, work_dir, **kwargs)
call_evaluate_progress ==
    /\ \A r \in Roles : agent_penalties[r] < MaxPenalty
    /\ refactorer_retries < MaxRetriesInARow
    /\ \E agent_name \in AgentNames, success \in BOOLEAN, kwargs \in CallerKwargs :
          LET e == evaluate_progress(agent_penalties, agent_name, success, work_dir,
                                     kwargs)
          IN /\ evaluation' = e.ret
             /\ agent_penalties' = e.agent_penalties
             /\ Recorded(agent_name, success, kwargs, e)
    /\ UNCHANGED <<current_agent, cycle_count, max_cycles, pc, outcome, returned,
                   invocations,
                   enable_git_staging, ops, failed_cycles, verbose, printed,
                   entered_by, cli_vars>>

\* supervisor.reset_agent_penalties(); eval_in describes a call only as long as
\* nothing else has touched the Supervisor since
reset_agent_penalties ==
    /\ agent_penalties' = InitialPenalties
    /\ eval_in' = NoCall
    /\ penalties_before' = InitialPenalties
    /\ UNCHANGED <<current_agent, cycle_count, max_cycles, pc, outcome, evaluation,
                   returned, invocations, refactorer_retries, refactorer_failures,
                   enable_git_staging, ops, failed_cycles, verbose, printed,
                   entered_by, cli_vars>>

SupNext ==
    \/ call_evaluate_progress
    \/ reset_agent_penalties

SupSpec == SupInit /\ [][SupNext]_vars

---------------------------------------------------------------------------
\* The config module: get_config and set_config called by a program, as the
\* test of the singleton calls them.

\* the state of a TDDWorkflow, but for pc
wf_vars == <<current_agent, cycle_count, max_cycles, agent_penalties, outcome,
             evaluation, returned, eval_in, penalties_before, invocations,
             refactorer_retries, refactorer_failures, enable_git_staging, ops,
             failed_cycles, verbose, printed, entered_by>>

\* no TDDWorkflow has been constructed
NoWorkflow ==
    /\ current_agent = ""
    /\ cycle_count = 0
    /\ max_cycles = 0
    /\ agent_penalties = InitialPenalties
    /\ outcome = NoOutcome
    /\ evaluation = NoEvaluation
    /\ returned = NoReturn
    /\ eval_in = NoCall
    /\ penalties_before = InitialPenalties
    /\ invocations = 0
    /\ refactorer_retries = 0
    /\ refactorer_failures = 0
    /\ enable_git_staging = FALSE
    /\ ops = <<>>
    /\ failed_cycles = 0
    /\ verbose = FALSE
    /\ printed = {}
    /\ entered_by = ""

\* the most cycles a run started by main is followed for
MaxCliCycles == 2

\* the Config instances a caller makes of its own
MaxConfigs == 2

\* the environment variables Config.from_env reads for the fields modelled
Environments ==
    [MAX_TDD_CYCLES : {Absent} \cup {Given(n) : n \in 0..MaxCliCycles},
     ENABLE_GIT_STAGING : {Absent, Given("true"), Given("no")},
     VERBOSE_OUTPUT : {Absent, Given("true"), Given("no")}]

\* Config.from_env
from_env(env) ==
    Config(0,
           IF env.MAX_TDD_CYCLES # Absent THEN env.MAX_TDD_CYCLES[1]
           ELSE DefaultMaxTddCycles,
           IF env.ENABLE_GIT_STAGING # Absent
           THEN env.ENABLE_GIT_STAGING[1] \in {"true", "1", "yes"}
           ELSE DefaultEnableGitStaging,
           IF env.VERBOSE_OUTPUT # Absent
           THEN env.VERBOSE_OUTPUT[1] \in {"true", "1", "yes"}
           ELSE DefaultVerboseOutput)

\* a faulty variant: the configuration is read from the environment at every
\* call
get_config_anew(module_config, env) == from_env(env)

\* get_config: the instance it returns, which is the global one from then on
get_config(module_config, env) ==
    IF module_config = NoConfig THEN from_env(env) ELSE module_config

\* set_config: the global instance from then on
set_config(config) == config

\* the instances a caller passes to set_config
Configs ==
    {Config(i, n, staging, DefaultVerboseOutput) :
        i \in 1..MaxConfigs, n \in {DefaultMaxTddCycles, 999}, staging \in BOOLEAN}

ConfInit ==
    /\ NoWorkflow
    /\ pc = "config"
    /\ global_config = NoConfig
    /\ got = NoGot
    /\ cli = NoCli

\* config = get_config()
call_get_config ==
    /\ pc = "config"
    /\ \E env \in Environments :
          /\ global_config' = get_config(global_config, env)
          /\ got' = [got EXCEPT !.returned = get_config(global_config, env),
                                !.set_after_get = FALSE]
    /\ UNCHANGED <<wf_vars, pc, cli>>

\* set_config(config)
call_set_config ==
    /\ pc = "config"
    /\ \E config \in Configs :
          /\ global_config' = set_config(config)
          /\ got' = [got EXCEPT !.given = config, !.set_after_get = TRUE]
    /\ UNCHANGED <<wf_vars, pc, cli>>

ConfNext ==
    \/ call_get_config
    \/ call_set_config

ConfSpec == ConfInit /\ [][ConfNext]_vars

---------------------------------------------------------------------------
\* cli.main, called once in a process of its own.

\* the arguments of main: a kata file that can be read, one that is not
\* there, one that cannot be read; a work directory that can be made and one
\* that cannot
Args ==
    [kata_file : {"kata.md", "missing.md", "unreadable.md"},
     work_dir : {"work_dir", "not a directory"},
     dry_run : BOOLEAN,
     max_cycles : {Absent} \cup {Given(n) : n \in 0..MaxCliCycles},
     verbose : BOOLEAN]

\* read_kata_description: the text is returned, or sys.exit(1) is called
read_kata_description(kata_file) ==
    IF kata_file = "kata.md" THEN "returned" ELSE "SystemExit"

\* os.makedirs(work_dir, exist_ok=True)
makedirs(dir) == IF dir = "work_dir" THEN "returned" ELSE "raised"

\* if parsed_args.max_cycles: config.max_tdd_cycles = parsed_args.max_cycles
with_max_cycles(config, option) ==
    IF option # Absent /\ option[1] # 0
    THEN [config EXCEPT !.max_tdd_cycles = option[1]]
    ELSE config

\* if parsed_args.verbose: config.verbose_output = True
with_verbose(config, flag) ==
    IF flag THEN [config EXCEPT !.verbose_output = TRUE] ELSE config

\* a faulty variant: --dry-run does not keep main from the workflow
main_result_eager(args, construction) ==
    IF read_kata_description(args.kata_file) = "SystemExit"
    THEN [status |-> "SystemExit", exit_code |-> 1, configured |-> FALSE,
          constructs |-> FALSE]
    ELSE IF makedirs(args.work_dir) = "raised"
    THEN [status |-> "raised", exit_code |-> 1, configured |-> TRUE,
          constructs |-> FALSE]
    ELSE IF construction = "raises"
    THEN [status |-> "returned", exit_code |-> 1, configured |-> TRUE,
          constructs |-> FALSE]
    ELSE [status |-> "running", exit_code |-> -1, configured |-> TRUE,
          constructs |-> TRUE]

\* a faulty variant: a kata file that cannot be read is taken as an empty
\* description, a work directory that cannot be made is passed over
main_result_lenient(args, construction) ==
    IF args.dry_run
    THEN [status |-> "returned", exit_code |-> 0, configured |-> TRUE,
          constructs |-> FALSE]
    ELSE IF construction = "raises"
    THEN [status |-> "returned", exit_code |-> 1, configured |-> TRUE,
          constructs |-> FALSE]
    ELSE [status |-> "running", exit_code |-> -1, configured |-> TRUE,
          constructs |-> TRUE]

\* main, up to workflow.run(): how it ends (sys.exit(1) of
\* read_kata_description, the exception of os.makedirs, return 0, return 1)
\* or that it goes on with a TDDWorkflow; whether set_config was reached
main_result(args, construction) ==
    IF read_kata_description(args.kata_file) = "SystemExit"
    THEN [status |-> "SystemExit", exit_code |-> 1, configured |-> FALSE,
          constructs |-> FALSE]
    ELSE IF makedirs(args.work_dir) = "raised"
    THEN [status |-> "raised", exit_code |-> 1, configured |-> TRUE,
          constructs |-> FALSE]
    ELSE IF args.dry_run
    THEN [status |-> "returned", exit_code |-> 0, configured |-> TRUE,
          constructs |-> FALSE]
    ELSE IF construction = "raises"
    THEN [status |-> "returned", exit_code |-> 1, configured |-> TRUE,
          constructs |-> FALSE]
    ELSE [status |-> "running", exit_code |-> -1, configured |-> TRUE,
          constructs |-> TRUE]

CliInit ==
    /\ NoWorkflow
    /\ pc = "main"
    /\ global_config = NoConfig
    /\ got = NoGot
    /\ cli = NoCli

\* main(args), up to workflow.run()
cli_main ==
    /\ pc = "main"
    /\ \E args \in Args, env \in Environments, construction \in {"returns", "raises"} :
          LET r == main_result(args, construction)
              config == with_verbose(with_max_cycles(get_config(global_config, env),
                                                     args.max_cycles),
                                     args.verbose)
          IN /\ cli' = [status |-> r.status, exit_code |-> r.exit_code,
                        workflows |-> IF r.constructs THEN 1 ELSE 0, args |-> args]
             /\ IF r.configured
                THEN /\ global_config' = set_config(config)
                     /\ got' = [returned |-> config, given |-> config,
                                set_after_get |-> ~r.constructs]
                ELSE UNCHANGED <<global_config, got>>
             /\ IF r.constructs
                THEN /\ current_agent' = "tester"
                     /\ cycle_count' = 0
                     /\ max_cycles' = config.max_tdd_cycles
                     /\ enable_git_staging' = config.enable_git_staging
                     /\ verbose' = config.verbose_output
                     /\ pc' = "constructed"
                     /\ UNCHANGED <<agent_penalties, outcome, evaluation, returned,
                                    eval_in, penalties_before, invocations,
                                    refactorer_retries, refactorer_failures, ops,
                                    failed_cycles, printed, entered_by>>
                ELSE /\ pc' = "exited"
                     /\ UNCHANGED wf_vars

\* result = workflow.run() has returned: return 0
cli_return ==
    /\ pc = "returned"
    /\ cli.status = "running"
    /\ cli' = [cli EXCEPT !.status = "returned", !.exit_code = 0]
    /\ pc' = "exited"
    /\ UNCHANGED <<wf_vars, global_config, got>>

\* except Exception: workflow.run() raises before its loop: return 1
cli_except ==
    /\ pc = "constructed"
    /\ cli.status = "running"
    /\ cli' = [cli EXCEPT !.status = "returned", !.exit_code = 1]
    /\ pc' = "exited"
    /\ UNCHANGED <<wf_vars, global_config, got>>

\* the run of the workflow main constructed, followed for MaxCliCycles cycles
cli_workflow_run ==
    /\ cli.status = "running"
    /\ max_cycles <= MaxCliCycles
    /\ Next

CliNext ==
    \/ cli_main
    \/ cli_return
    \/ cli_except
    \/ cli_workflow_run

CliSpec == CliInit /\ [][CliNext]_vars

---------------------------------------------------------------------------
\* TDDWorkflow.run with a stand-in assigned to workflow.supervisor: run() is
\* given whatever dict the stand-in returns.

\* the most cycles of a run with a stand-in
MaxStubCycles == 3

\* what a stand-in returns for an outcome
StubEvaluations(success) ==
    {[keys |-> {"success", "next_agent", "message", "action"},
      success |-> success, next_agent |-> r, message |-> <<>>, action |-> a,
      failure_reason |-> <<>>] :
        r \in Roles, a \in {"continue", "retry", "stop"}}

StubInit ==
    \E n \in 0..MaxStubCycles :
        /\ Constructed(n, FALSE, FALSE)
        /\ global_config = Config(0, n, FALSE, FALSE)
        /\ got = [NoGot EXCEPT !.returned = global_config]
        /\ cli = NoCli

\* evaluation = self.supervisor.evaluate_progress(...), answered by the
\* stand-in
stub_evaluate ==
    /\ pc = "evaluate"
    /\ evaluation' \in StubEvaluations(outcome.success)
    /\ eval_in' = [agent_name |-> current_agent, success |-> outcome.success,
                   kwargs |-> outcome.result, retry_count |-> 0]
    /\ failed_cycles' = IF outcome.success THEN failed_cycles ELSE failed_cycles + 1
    /\ printed' = printed_after({"supervisor"})
    /\ pc' = "check_stop"
    /\ UNCHANGED <<current_agent, cycle_count, max_cycles, agent_penalties, outcome,
                   returned, penalties_before, invocations, refactorer_retries,
                   refactorer_failures, enable_git_staging, ops, verbose,
                   entered_by, cli_vars>>

StubNext ==
    \/ run_start
    \/ loop_head
    \/ run_current_agent
    \/ stub_evaluate
    \/ update_current_agent
    \/ run_return

StubSpec == StubInit /\ [][StubNext]_vars

---------------------------------------------------------------------------
\* run() called again on the TDDWorkflow it has returned from.

\* the largest max_cycles of a workflow that is run again
MaxAgainCycles == 3

\* a faulty variant: run() starts its count of cycles afresh
cycle_count_at_entry_reset(count) == 0

\* self.cycle_count when run() reaches its loop: run() assigns it in the loop
\* only, __init__ alone sets it to 0
cycle_count_at_entry(count) == count

AgainInit ==
    \E n \in 0..MaxAgainCycles, staging \in BOOLEAN, verbose_output \in BOOLEAN :
        /\ Constructed(n, staging, verbose_output)
        /\ global_config = Config(0, n, staging, verbose_output)
        /\ got = [NoGot EXCEPT !.returned = global_config]
        /\ cli = NoCli

\* workflow.run() once more, up to the loop: the opening lines and
\* self._initialize_git_repo()
run_again ==
    /\ pc = "returned"
    /\ printed' = printed_after({"start"})
    /\ \E rev_parse \in GitRuns, init \in GitRuns :
          /\ rev_parse # "error" => init = "ok"
          /\ ops' = initialize_git_repo(rev_parse, init)
    /\ cycle_count' = cycle_count_at_entry(cycle_count)
    /\ pc' = "loop"
    /\ UNCHANGED <<current_agent, max_cycles, agent_penalties, outcome, evaluation,
                   returned, eval_in, penalties_before, invocations,
                   refactorer_retries, refactorer_failures, enable_git_staging,
                   failed_cycles, verbose, entered_by, cli_vars>>

AgainNext ==
    \/ run_start
    \/ loop_head
    \/ run_current_agent
    \/ supervisor_evaluate
    \/ update_current_agent
    \/ run_return
    \/ run_again

AgainSpec == AgainInit /\ [][AgainNext]_vars

---------------------------------------------------------------------------
\* The properties.

\* the role after r in the cycle Tester, Implementer, Refactorer
Successor(r) ==
    CASE r = "tester" -> "implementer"
      [] r = "implementer" -> "refactorer"
      [] r = "refactorer" -> "tester"

\* the last evaluation was of a failure of this role
Failed(role) == eval_in.agent_name = role /\ ~eval_in.success

\* the last evaluation was given a failure_reason
HasReason == "failure_reason" \in eval_in.kwargs.keys

\* C1: a run started with cycle_count = 0 and max_cycles = N >= 0 leaves the
\* loop only with cycle_count = N, after exactly N role invocations, whatever
\* the roles' outcomes were, and returns cycles_completed = N; it is never
\* stuck before it has returned, and the roles coming round to the Tester
\* does not end it.
C1_RunPerformsMaxCycles ==
    /\ (pc \in {"return", "returned"} /\ max_cycles >= 0)
          => cycle_count = max_cycles /\ invocations = max_cycles
    /\ (pc = "returned" /\ max_cycles >= 0)
          => returned.cycles_completed = max_cycles
    /\ pc # "returned" => ENABLED Next

\* a run of four cycles or more that has returned with the Tester next, after
\* a failure of the Refactorer
C1_Witness ==
    /\ pc = "returned"
    /\ returned.cycles_completed >= 4
    /\ returned.final_agent = "tester"
    /\ agent_penalties["refactorer"] > 0

\* C2: at every point of a run, before, in and after every cycle,
\* current_agent is the Tester, the Implementer or the Refactorer.
C2_CurrentAgentIsARole == current_agent \in Roles

\* a failure has been routed and the next cycle is about to start
C2_Witness ==
    /\ pc = "loop"
    /\ cycle_count >= 3
    /\ ~evaluation.success
    /\ current_agent = "refactorer"
    /\ evaluation.action = "prep_refactor"

\* C3: cycle_count starts at 0; the only step that changes it is the start of
\* a loop iteration, which adds exactly 1; and with max_cycles >= 0 neither
\* cycle_count nor the number of executions of the loop body exceeds max_cycles.
C3_CycleCountSteps ==
    /\ cycle_count = 0
    /\ [][/\ cycle_count' # cycle_count
             => pc = "loop" /\ pc' = "run_agent" /\ cycle_count' = cycle_count + 1
          /\ (pc = "loop" /\ pc' = "run_agent") => cycle_count' = cycle_count + 1]_vars
    /\ [](max_cycles >= 0 => cycle_count <= max_cycles /\ invocations <= max_cycles)

\* the loop has run max_cycles >= 3 times and the run has returned
C3_Witness ==
    /\ pc = "returned"
    /\ max_cycles >= 3
    /\ cycle_count = max_cycles

\* C4: a successful evaluation of a role R answers action "continue" and
\* next_agent = the role after R in the cycle.
C4_SuccessHandsOver ==
    (eval_in.agent_name \in Roles /\ eval_in.success)
        => /\ evaluation.action = "continue"
           /\ evaluation.next_agent = Successor(eval_in.agent_name)

\* the Refactorer succeeded and the Tester is next
C4_Witness ==
    /\ eval_in.agent_name = "refactorer"
    /\ eval_in.success
    /\ evaluation.next_agent = "tester"

\* C5: a failed Tester evaluation whose reason contains "already passes" is
\* answered with next_agent = refactorer and action "refactor".
C5_AlreadyPassesToRefactorer ==
    (Failed("tester") /\ HasReason
     /\ contains(eval_in.kwargs.failure_reason, "already passes"))
        => /\ evaluation.next_agent = "refactorer"
           /\ evaluation.action = "refactor"

\* the Tester failed with the reason the workflow gives for a passing test
C5_Witness ==
    /\ Failed("tester")
    /\ eval_in.kwargs.failure_reason
          = <<"Test", "already passes", "- not a proper failing test">>
    /\ evaluation.action = "refactor"

\* C6 as stated: a failed Tester evaluation whose reason does not contain
\* "already passes", or that has no reason, is answered with next_agent =
\* tester and action "retry".
C6_OtherReasonRetriesTester ==
    (Failed("tester")
     /\ (HasReason => ~contains(eval_in.kwargs.failure_reason, "already passes")))
        => /\ evaluation.next_agent = "tester"
           /\ evaluation.action = "retry"

\* C6: a failed Tester evaluation whose reason, put in lower case, does not
\* contain "already passes", or that has no reason, is answered with
\* next_agent = tester and action "retry".
C6_OtherReasonInAnyCaseRetriesTester ==
    (Failed("tester")
     /\ (HasReason
           => ~contains(lower(eval_in.kwargs.failure_reason), "already passes")))
        => /\ evaluation.next_agent = "tester"
           /\ evaluation.action = "retry"

\* the Tester failed without a reason and is retried
C6_Witness ==
    /\ Failed("tester")
    /\ ~HasReason
    /\ evaluation.failure_reason = <<"Unknown failure">>
    /\ evaluation.action = "retry"

\* C7: a failed Implementer evaluation is answered with next_agent =
\* refactorer and action "prep_refactor", whatever the reason.
C7_ImplementerFailureToRefactorer ==
    Failed("implementer")
        => /\ evaluation.next_agent = "refactorer"
           /\ evaluation.action = "prep_refactor"

\* the Implementer failed with a reason that would send a Tester elsewhere
C7_Witness ==
    /\ Failed("implementer")
    /\ HasReason
    /\ eval_in.kwargs.failure_reason = <<"already passes">>
    /\ evaluation.action = "prep_refactor"

\* C8: a failed Refactorer evaluation is answered with (refactorer, "retry")
\* when the Refactorer has been retried fewer than 3 times, and with
\* (implementer, "revert_and_retry") when it has been retried 3 times or more.
C8_RefactorerRetryLimit ==
    Failed("refactorer")
        => IF eval_in.retry_count < 3
           THEN evaluation.next_agent = "refactorer" /\ evaluation.action = "retry"
           ELSE /\ evaluation.next_agent = "implementer"
                /\ evaluation.action = "revert_and_retry"

\* C9: in a run, the failure of a Refactorer that has been retried 3 times in
\* a row hands over to the Implementer with action "revert_and_retry", and no
\* run has more than 4 failed Refactorer cycles in a row.
C9_RefactorerRetriesBounded ==
    /\ refactorer_failures <= 4
    /\ (Failed("refactorer") /\ eval_in.retry_count >= 3)
          => /\ evaluation.next_agent = "implementer"
             /\ evaluation.action = "revert_and_retry"

\* C10: a failed Tester evaluation whose reason says "too much code" adds
\* exactly 1 to the Implementer's penalty and leaves the Tester's and the
\* Refactorer's as they were.
C10_TooMuchCodeChargesImplementer ==
    (Failed("tester") /\ HasReason
     /\ contains(lower(eval_in.kwargs.failure_reason), "too much code"))
        => /\ agent_penalties["implementer"] = penalties_before["implementer"] + 1
           /\ agent_penalties["tester"] = penalties_before["tester"]
           /\ agent_penalties["refactorer"] = penalties_before["refactorer"]

\* the Tester, already penalised itself, failed with "too much code"
C10_Witness ==
    /\ Failed("tester")
    /\ HasReason
    /\ eval_in.kwargs.failure_reason = <<"too much code">>
    /\ penalties_before["tester"] = 1
    /\ agent_penalties = [penalties_before EXCEPT !["implementer"] = @ + 1]

\* C11: a failed evaluation of a role, other than a Tester failure whose
\* reason says "too much code", adds exactly 1 to the penalty of the role that
\* failed and leaves the other two penalties as they were.
C11_OtherFailuresChargeTheFailingRole ==
    (eval_in.agent_name \in Roles /\ ~eval_in.success
     /\ ~(/\ eval_in.agent_name = "tester"
          /\ HasReason
          /\ contains(lower(eval_in.kwargs.failure_reason), "too much code")))
        => agent_penalties
             = [penalties_before EXCEPT ![eval_in.agent_name] = @ + 1]

\* some penalty is lower after the step than before it
PenaltyLowered == \E r \in Roles : agent_penalties'[r] < agent_penalties[r]

\* C12: a step that lowers a penalty counter is a call of
\* reset_agent_penalties; a run makes no such call, so in a run no counter is
\* ever lowered.
C12_PenaltiesLoweredOnlyByReset ==
    [][PenaltyLowered => reset_agent_penalties]_vars

\* a run at whose end every role has been penalised
C12_Witness ==
    /\ pc = "returned"
    /\ \A r \in Roles : agent_penalties[r] >= 1

\* next_agent, action and message of a returned dict
Transition(ret) ==
    [next_agent |-> ret.next_agent, action |-> ret.action, message |-> ret.message]

\* C13: the Transition of an evaluation is the one a Supervisor with an empty
\* penalty table and no evaluation behind it returns for the same agent name,
\* success flag and failure reason; so two evaluations of the same triple
\* return the same Transition.
C13_TransitionOfTheTripleAlone ==
    eval_in.agent_name # ""
        => Transition(evaluation)
             = Transition(evaluate_progress(InitialPenalties, eval_in.agent_name,
                                            eval_in.success, work_dir,
                                            eval_in.kwargs).ret)

\* a Refactorer failure evaluated on a table that holds penalties, after
\* three retries of the Refactorer
C13_Witness ==
    /\ Failed("refactorer")
    /\ eval_in.retry_count = 3
    /\ penalties_before["tester"] >= 1
    /\ penalties_before["refactorer"] >= 2
    /\ evaluation.action = "retry"

\* C14: whenever a role is about to be invoked in a run, the Supervisor
\* answers no agent name (a role or not), success flag and failure reason
\* with the action "stop"; no evaluation of the run holds that action;
\* and a run that has left the loop has used up its cycles.
C14_NeverStop ==
    /\ pc = "run_agent"
          => \A agent_name \in AgentNames, success \in BOOLEAN, kwargs \in CallerKwargs :
                evaluate_progress(agent_penalties, agent_name, success, work_dir,
                                  kwargs).ret.action # "stop"
    /\ evaluation.action # "stop"
    /\ pc \in {"return", "returned"} => cycle_count >= max_cycles

\* a run has returned after failures of all three roles
C14_Witness ==
    /\ pc = "returned"
    /\ cycle_count = max_cycles
    /\ max_cycles >= 4
    /\ \A r \in Roles : agent_penalties[r] >= 1
    /\ ~evaluation.success

\* the run stands between two cycles, or has left the loop
BetweenCycles == pc \in {"loop", "return", "returned"}

\* C15: as long as every cycle of a run has succeeded, the current role after
\* k cycles is the (k mod 3)-th of tester, implementer, refactorer; and a run
\* of three cycles that all succeed returns final_agent = tester and
\* cycles_completed = 3.
C15_SucceedingRunRotates ==
    /\ (BetweenCycles /\ failed_cycles = 0)
          => current_agent = agent_cycle[(cycle_count % 3) + 1]
    /\ (pc = "returned" /\ failed_cycles = 0 /\ max_cycles = 3)
          => (returned.final_agent = "tester" /\ returned.cycles_completed = 3)

\* a run of three cycles, all three succeeding, has returned
C15_Witness ==
    /\ pc = "returned"
    /\ max_cycles = 3
    /\ invocations = 3
    /\ failed_cycles = 0
    /\ returned.final_agent = "tester"

\* the names of the calls of a log, in order
OpNames(called) == [i \in 1..Len(called) |-> called[i].op]

\* s is a prefix of t
IsPrefix(s, t) == Len(s) <= Len(t) /\ s = SubSeq(t, 1, Len(s))

\* the role procedure of the given role has run in the cycle under way
CycleOf(role) == pc \in {"evaluate", "check_stop"} /\ current_agent = role

\* the latest cycle was the given role's, and the run stands after it
AfterCycleOf(role) == BetweenCycles /\ eval_in.agent_name = role

\* the i-th call of the latest cycle was a test run that ended as one of kinds
TestRunAt(i, kinds) ==
    Len(ops) >= i /\ ops[i].op = "run_tests" /\ ops[i].result \in kinds

\* C16: a Tester cycle writes a test, saves it and runs the tests, in that
\* order; it succeeds exactly when that test run does not pass; when the run
\* passes, the cycle fails with a reason holding "already passes", the
\* Supervisor answers with the Refactorer, and the Refactorer is the current
\* role after the cycle.
C16_TesterCycle ==
    /\ CycleOf("tester")
          => /\ IsPrefix(OpNames(ops), <<"write_test", "save_test", "run_tests", "stage">>)
             /\ outcome.success <=> TestRunAt(3, TestRuns \ {"pass"})
             /\ TestRunAt(3, {"pass"})
                   => /\ ~outcome.success
                      /\ contains(lower(kwargs_get(outcome.result, <<>>)),
                                  "already passes")
    /\ (pc = "check_stop" /\ current_agent = "tester" /\ TestRunAt(3, {"pass"}))
          => evaluation.next_agent = "refactorer"
    /\ (AfterCycleOf("tester") /\ TestRunAt(3, {"pass"}))
          => current_agent = "refactorer"

\* a Tester cycle whose test passed is over, and the Refactorer is next
C16_Witness ==
    /\ AfterCycleOf("tester")
    /\ OpNames(ops) = <<"write_test", "save_test", "run_tests">>
    /\ TestRunAt(3, {"pass"})
    /\ current_agent = "refactorer"

\* no call of the latest cycle has one of the given names
NoneCalled(names) == \A i \in 1..Len(ops) : ops[i].op \notin names

\* C17: an Implementer cycle looks for the latest test file, reads it, has an
\* implementation generated, saves it and runs the tests, in that order; it
\* succeeds exactly when that test run passes; when no test file is found the
\* cycle fails, and no implementation is generated or saved and no test run
\* happens in it.
C17_ImplementerCycle ==
    CycleOf("implementer")
        => /\ IsPrefix(OpNames(ops),
                       <<"find_latest_test_file", "open", "implement_solution",
                         "save_implementation", "run_tests", "stage", "commit">>)
           /\ Len(ops) >= 1
           /\ outcome.success <=> TestRunAt(5, {"pass"})
           /\ ops[1].result = "None"
                 => /\ ~outcome.success
                    /\ NoneCalled({"implement_solution", "save_implementation",
                                   "run_tests"})

\* an Implementer cycle that found no test file has been evaluated
C17_Witness ==
    /\ pc = "check_stop"
    /\ current_agent = "implementer"
    /\ ops = <<Op("find_latest_test_file", "None")>>
    /\ ~outcome.success
    /\ kwargs_get(outcome.result, <<>>)
          = <<"No test file found to implement against">>

\* the failure reason of the outcome of the cycle under way
OutcomeReason == kwargs_get(outcome.result, <<>>)

\* C18: a Refactorer cycle starts with a test run; when that run does not
\* pass, the cycle fails with the reason "Tests failing before refactoring -
\* cannot proceed", and that test run is all the cycle does: no refactoring is
\* generated or applied, no second test run happens, nothing is committed.
C18_RefactorerPrecondition ==
    CycleOf("refactorer")
        => /\ TestRunAt(1, TestRuns)
           /\ TestRunAt(1, TestRuns \ {"pass"})
                 => /\ ~outcome.success
                    /\ OutcomeReason
                         = <<"Tests failing before refactoring - cannot proceed">>
                    /\ Len(ops) = 1
                    /\ NoneCalled({"refactor_code", "apply_refactoring", "commit"})

\* a Refactorer cycle whose first test run failed has been evaluated
C18_Witness ==
    /\ pc = "check_stop"
    /\ current_agent = "refactorer"
    /\ enable_git_staging
    /\ ops = <<Op("run_tests", "fail")>>
    /\ ~outcome.success

\* C19: a Refactorer cycle succeeds exactly when the test run before the
\* refactoring and the test run after it both pass; when the run after the
\* refactoring does not pass, the cycle fails with the reason "Tests failing
\* after refactoring".
C19_RefactorerSuccess ==
    CycleOf("refactorer")
        => /\ outcome.success <=> (TestRunAt(1, {"pass"}) /\ TestRunAt(4, {"pass"}))
           /\ TestRunAt(4, TestRuns \ {"pass"})
                 => /\ ~outcome.success
                    /\ OutcomeReason = <<"Tests failing after refactoring">>

\* a Refactorer cycle whose refactoring broke the tests has been evaluated
C19_Witness ==
    /\ pc = "check_stop"
    /\ current_agent = "refactorer"
    /\ OpNames(ops) = <<"run_tests", "refactor_code", "apply_refactoring", "run_tests">>
    /\ ops[1].result = "pass"
    /\ ops[4].result = "fail"
    /\ ~outcome.success

\* a collaborator call of the latest cycle raised an exception
Raised == \E i \in 1..Len(ops) : ops[i].result = "raised"

\* C20: an exception raised by a collaborator inside a role invocation gives
\* a failed outcome with a non-empty failure reason; the cycle is counted; the
\* Supervisor answers it as it answers that role's failure with that reason,
\* with a role to go on with; the loop is not left for it, and the run goes
\* on with the role the Supervisor named.
C20_ExceptionBecomesFailure ==
    /\ (pc \in {"evaluate", "check_stop"} /\ Raised)
          => /\ ~outcome.success
             /\ "failure_reason" \in outcome.result.keys
             /\ OutcomeReason # <<>>
             /\ cycle_count >= 1
             /\ invocations = cycle_count
    /\ (pc = "check_stop" /\ Raised)
          => /\ eval_in = [agent_name |-> current_agent, success |-> FALSE,
                           kwargs |-> outcome.result,
                           retry_count |-> eval_in.retry_count]
             /\ evaluation = evaluate_progress(penalties_before, current_agent, FALSE,
                                               work_dir, outcome.result).ret
             /\ evaluation.next_agent \in Roles
             /\ ~loop_break(outcome.success, evaluation, cycle_count)
    /\ (BetweenCycles /\ Raised)
          => /\ current_agent = evaluation.next_agent
             /\ failed_cycles >= 1
    /\ (pc = "returned" /\ Raised) => returned.success

\* a cycle in which implement_solution raised is over, the loop has more
\* cycles to go and the Refactorer is next
C20_Witness ==
    /\ pc = "loop"
    /\ Raised
    /\ ops[Len(ops)] = Op("implement_solution", "raised")
    /\ eval_in.agent_name = "implementer"
    /\ invocations = cycle_count
    /\ cycle_count < max_cycles
    /\ current_agent = "refactorer"

\* a test run of the latest cycle ended as one of kinds
SomeTestRun(kinds) ==
    \E i \in 1..Len(ops) : ops[i].op = "run_tests" /\ ops[i].result \in kinds

\* C21: a cycle of any role in which a test run timed out or crashed has a
\* failed outcome that carries a failure reason.
C21_BrokenTestRunFailsTheCycle ==
    (pc \in {"evaluate", "check_stop"} /\ SomeTestRun({"timeout", "crash"}))
        => /\ ~outcome.success
           /\ "failure_reason" \in outcome.result.keys
           /\ OutcomeReason # <<>>

\* C22: a test run that timed out or crashed gives a result with success
\* false; in a cycle it is a call that returned, not one that raised: the role
\* procedure goes on to its return, the outcome is not the one of the except
\* clause of the role invocation, the Implementer's and the Refactorer's
\* cycle fail on it, and the run goes on to its return.
C22_BrokenTestRunIsAResult ==
    /\ \A t \in {"timeout", "crash"} :
          /\ ~run_tests(t).success
          /\ run_tests(t).returncode = -1
    /\ (pc \in {"evaluate", "check_stop"} /\ SomeTestRun({"timeout", "crash"}))
          => /\ ~Raised
             /\ OutcomeReason \in {<<>>} \cup WorkflowReasons
             /\ current_agent \in {"implementer", "refactorer"} => ~outcome.success
    /\ (BetweenCycles /\ SomeTestRun({"timeout", "crash"}))
          => /\ invocations = cycle_count
             /\ current_agent = evaluation.next_agent

\* an Implementer cycle whose test run timed out is over, and the run has
\* gone on to its return
C22_Witness ==
    /\ pc = "returned"
    /\ eval_in.agent_name = "implementer"
    /\ TestRunAt(5, {"timeout"})
    /\ ~eval_in.success
    /\ returned.cycles_completed = cycle_count

\* a stage or a commit of the latest cycle did not end well
GitFailed ==
    \E i \in 1..Len(ops) : ops[i].op \in {"stage", "commit"} /\ ops[i].result # "ok"

\* what the role invocation gives under env when git ends as g
OutcomeUnder(env, g) ==
    LET r == run_current_agent_result(current_agent, [env EXCEPT !.git = g],
                                      enable_git_staging)
    IN [success |-> r.success, result |-> r.result]

\* C23: what git does changes nothing. A role about to be invoked gives, for
\* the same answers of its other collaborators, the same success flag and
\* result whether git ends well, with a non-zero status or with an exception;
\* a cycle in which a stage or a commit failed is a success with no failure
\* reason, which the Supervisor answers by handing over to the next role with
\* no penalty; the run starts with the Tester at cycle 0 whatever git did at
\* the start of run(), and returns after max_cycles cycles.
C23_GitChangesNothing ==
    /\ pc = "run_agent"
          => \A env \in Envs(current_agent), g \in GitRuns :
                OutcomeUnder(env, g) = OutcomeUnder(env, "ok")
    /\ (pc \in {"evaluate", "check_stop"} /\ GitFailed)
          => /\ outcome.success
             /\ "failure_reason" \notin outcome.result.keys
    /\ (pc = "check_stop" /\ GitFailed)
          => /\ evaluation.next_agent = Successor(current_agent)
             /\ evaluation.action = "continue"
             /\ agent_penalties = penalties_before
    /\ (pc = "loop" /\ cycle_count = 0)
          => /\ current_agent = "tester"
             /\ agent_penalties = InitialPenalties
             /\ Len(ops) >= 1
    /\ pc = "returned"
          => /\ returned.cycles_completed = (IF max_cycles > 0 THEN max_cycles ELSE 0)
             /\ returned.final_agent = current_agent

\* an Implementer cycle whose stage and commit both raised has been evaluated
\* as a success
C23_Witness ==
    /\ pc = "check_stop"
    /\ current_agent = "implementer"
    /\ enable_git_staging
    /\ Len(ops) = 7
    /\ SubSeq(ops, 6, 7) = <<Op("stage", "error"), Op("commit", "error")>>
    /\ outcome.success
    /\ evaluation.next_agent = "refactorer"

\* C24: for an agent name that is none of tester, implementer, refactorer the
\* Supervisor returns next_agent = tester and the action "continue", for a
\* success and for a failure alike.
C24_UnknownAgentFallsBackToTester ==
    (eval_in.agent_name # "" /\ eval_in.agent_name \notin Roles)
        => /\ evaluation.next_agent = "tester"
           /\ evaluation.action = "continue"
           /\ evaluation.success = eval_in.success

\* the Supervisor has been asked about a failure of an agent that is no role
C24_Witness ==
    /\ eval_in.agent_name = "supervisor"
    /\ ~eval_in.success
    /\ HasReason
    /\ evaluation.next_agent = "tester"
    /\ evaluation.action = "continue"

\* C27: a get_config() returns the instance the get_config() before it
\* returned when no set_config() came between the two, and returns the
\* instance the latest set_config() was given when there was one.
C27_ConfigSingleton ==
    [][call_get_config
          => /\ (got.returned # NoConfig /\ ~got.set_after_get)
                   => got'.returned = got.returned
             /\ got.given # NoConfig => got'.returned = got.given]_vars

\* get_config() has returned the instance of the latest set_config(), which
\* is not the one an earlier get_config() made
C27_Witness ==
    /\ pc = "config"
    /\ got.given \in Configs
    /\ got.returned = got.given
    /\ ~got.set_after_get
    /\ global_config = got.given

\* main has been called
MainCalled == cli.status # "none"

\* no TDDWorkflow was constructed, no cycle was begun, no role was invoked
\* and the Supervisor was not asked
NothingRan ==
    /\ cli.workflows = 0
    /\ current_agent = ""
    /\ cycle_count = 0
    /\ invocations = 0
    /\ eval_in = NoCall
    /\ evaluation = NoEvaluation
    /\ returned = NoReturn

\* the configuration main was called with is in order
ConfigurationInOrder ==
    /\ read_kata_description(cli.args.kata_file) = "returned"
    /\ makedirs(cli.args.work_dir) = "returned"

\* C25: with a kata file it can read and a work directory it can make, main
\* returns 0 under --dry-run, with no TDDWorkflow constructed, no role
\* invoked and no evaluation; without --dry-run it returns 0 when
\* workflow.run() has returned, and 1 when constructing the workflow or
\* running it raised.
C25_ExitCodes ==
    (MainCalled /\ ConfigurationInOrder)
        => /\ cli.args.dry_run
                 => /\ pc = "exited"
                    /\ cli.status = "returned"
                    /\ cli.exit_code = 0
                    /\ NothingRan
           /\ (pc = "exited" /\ ~cli.args.dry_run)
                 => /\ cli.status = "returned"
                    /\ cli.exit_code \in {0, 1}
                    /\ cli.exit_code = 0 <=> returned # NoReturn
                    /\ cli.exit_code = 0 => returned.success
                    /\ cli.exit_code = 1 => (cli.workflows = 0 \/ cycle_count = 0)

\* main was called with --dry-run and has returned 0
C25_Witness ==
    /\ pc = "exited"
    /\ ConfigurationInOrder
    /\ cli.args.dry_run
    /\ cli.args.max_cycles = Given(2)
    /\ cli.exit_code = 0
    /\ global_config.max_tdd_cycles = 2

\* C26: called with a kata file that is not there or cannot be read, or with
\* a work directory that cannot be made, main ends without returning, with
\* the exit status 1 (by sys.exit(1), or by the exception of os.makedirs);
\* no TDDWorkflow is constructed, cycle_count stays 0 and no role is invoked.
C26_ConfigurationErrorIsFatal ==
    (MainCalled /\ ~ConfigurationInOrder)
        => /\ pc = "exited"
           /\ cli.status \in {"SystemExit", "raised"}
           /\ cli.exit_code # 0
           /\ NothingRan

\* main was called without --dry-run on a kata file that is not there
C26_Witness ==
    /\ pc = "exited"
    /\ cli.args.kata_file = "missing.md"
    /\ ~cli.args.dry_run
    /\ cli.status = "SystemExit"
    /\ cli.exit_code = 1

\* C28: a step that invokes a role is the step from the start of an iteration
\* to its evaluation, and counts one invocation; the next step is the
\* evaluation, which is given the role just invoked, its success flag and its
\* result, failure reason included, and nothing else is evaluated; the step
\* after it makes the next_agent of that evaluation the current role and
\* goes back to the loop test, and the current role changes in no other step.
C28_OneInvocationOneEvaluation ==
    [][/\ pc = "run_agent"
            => /\ pc' = "evaluate"
               /\ invocations' = invocations + 1
               /\ invocations' = cycle_count
               /\ current_agent' = current_agent
       /\ invocations' # invocations => pc = "run_agent"
       /\ pc = "evaluate"
            => /\ pc' = "check_stop"
               /\ eval_in'.agent_name = current_agent
               /\ eval_in'.success = outcome.success
               /\ eval_in'.kwargs = outcome.result
               /\ evaluation' = evaluate_progress(agent_penalties, current_agent,
                                                  outcome.success, work_dir,
                                                  outcome.result).ret
       /\ (eval_in' # eval_in /\ eval_in' # NoCall) => pc = "evaluate"
       /\ (evaluation' # evaluation /\ evaluation' # NoEvaluation) => pc = "evaluate"
       /\ pc = "check_stop"
            => /\ pc' = "loop"
               /\ current_agent' = evaluation.next_agent
               /\ eval_in.agent_name = current_agent
       /\ current_agent' # current_agent => pc = "check_stop"
       /\ pc' = "run_agent"
            => /\ pc = "loop"
               /\ cycle_count' = cycle_count + 1
               /\ invocations = cycle_count]_vars

\* two cycles are over: two invocations, the second one the Implementer's,
\* whose failure was evaluated and answered with the Refactorer
C28_Witness ==
    /\ pc = "loop"
    /\ cycle_count = 2
    /\ invocations = 2
    /\ Failed("implementer")
    /\ eval_in.kwargs = outcome.result
    /\ current_agent = evaluation.next_agent
    /\ current_agent = "refactorer"

\* C30: the penalty table changes only in the step of an evaluation of a
\* failed outcome: an evaluation of a success, a role invocation and the
\* steps of the run itself leave every penalty as it was.
C30_PenaltiesChangeOnlyOnFailure ==
    [][agent_penalties' # agent_penalties
          => (pc = "evaluate" /\ ~outcome.success /\ pc' = "check_stop")]_vars

\* a success has been evaluated on a table that holds penalties, and has
\* left them as they were
C30_Witness ==
    /\ pc = "check_stop"
    /\ eval_in.success
    /\ agent_penalties = penalties_before
    /\ agent_penalties["tester"] >= 1
    /\ agent_penalties["implementer"] >= 1

\* the latest evaluation answered a failure with the action "stop"
StoppedOnFailure ==
    /\ eval_in.agent_name # ""
    /\ ~eval_in.success
    /\ evaluation.action = "stop"

\* C29: when the evaluation of a failed outcome holds the action "stop", the
\* run leaves the loop in that cycle with the current role as it was: the
\* run returns the role that just failed as final_agent and counts that
\* cycle in cycles_completed. An iteration that does not end so, that of a
\* success answered with "stop" among them, updates the current role and
\* goes back to the loop test, and the loop is then left only when the cycles
\* are used up.
C29_StopBreaksOnFailureOnly ==
    /\ (pc \in {"return", "returned"} /\ StoppedOnFailure)
          => /\ current_agent = eval_in.agent_name
             /\ cycle_count = invocations
             /\ cycle_count <= max_cycles
    /\ (pc = "returned" /\ StoppedOnFailure)
          => /\ returned.final_agent = eval_in.agent_name
             /\ returned.cycles_completed = invocations
    /\ (pc = "loop" /\ eval_in.agent_name # "")
          => /\ ~StoppedOnFailure
             /\ current_agent = evaluation.next_agent
    /\ (pc \in {"return", "returned"} /\ ~StoppedOnFailure)
          => cycle_count = max_cycles

\* a run of three cycles has returned after its first, in which the Tester
\* failed and the answer was "stop" with the Refactorer as next_agent
C29_Witness ==
    /\ pc = "returned"
    /\ max_cycles = 3
    /\ StoppedOnFailure
    /\ evaluation.next_agent = "refactorer"
    /\ returned.final_agent = "tester"
    /\ returned.cycles_completed = 1

\* the kinds of lines run() prints inside its loop
CycleLines == {"cycle", "role", "outcome", "supervisor", "stopped", "full cycle"}

\* C31: when main is called without --verbose, the workflow it runs prints no
\* line of a cycle: no banner, no line of a role, no outcome, no message of the
\* Supervisor.
C31_SilentWithoutVerbose ==
    (cli.workflows = 1 /\ ~cli.args.verbose) => printed \cap CycleLines = {}

\* C32: when main is given --max-cycles N, the workflow it runs has
\* max_cycles = N, for every N, and performs at most N cycles.
C32_MaxCyclesOption ==
    (cli.workflows = 1 /\ cli.args.max_cycles # Absent)
        => /\ max_cycles = cli.args.max_cycles[1]
           /\ cycle_count <= cli.args.max_cycles[1]

\* C33: before the first cycle, run() has issued git init exactly when git
\* rev-parse did not find a repository: when it exited with a non-zero status
\* or could not be run.
C33_GitInitWhenNotARepository ==
    (pc = "loop" /\ cycle_count = 0 /\ Len(ops) >= 1)
        => ((\E i \in 1..Len(ops) : ops[i].op = "git init")
              <=> ops[1].result # "ok")

C35_ProcedureOfTheRoleAlone ==
    /\ pc = "evaluate"
          => \E env \in Envs(current_agent) :
                LET r == run_current_agent_result(current_agent, env,
                                                  enable_git_staging)
                IN outcome = [success |-> r.success, result |-> r.result]
                   /\ ops = r.ops
    /\ (CycleOf("refactorer") /\ entered_by \in {"prep_refactor", "refactor"}
        /\ TestRunAt(1, TestRuns \ {"pass"}))
          => /\ ~outcome.success
             /\ OutcomeReason = <<"Tests failing before refactoring - cannot proceed">>
             /\ Len(ops) = 1

C35_Witness ==
    /\ CycleOf("refactorer")
    /\ entered_by = "prep_refactor"
    /\ TestRunAt(1, {"fail"})
    /\ ~outcome.success
    /\ Len(ops) = 1

PenaltySum ==
    agent_penalties["tester"] + agent_penalties["implementer"]
        + agent_penalties["refactorer"]

\* C37: at every point of a run the three penalties add up to the number of
\* failed cycles evaluated so far, which is never more than cycle_count.
C37_PenaltiesCountFailedCycles ==
    /\ PenaltySum = failed_cycles
    /\ failed_cycles <= cycle_count

C37_Witness ==
    /\ pc = "check_stop"
    /\ agent_penalties["tester"] >= 1
    /\ agent_penalties["implementer"] >= 1
    /\ agent_penalties["refactorer"] >= 1
    /\ Failed("tester")
    /\ contains(lower(eval_in.kwargs.failure_reason), "too much code")
    /\ failed_cycles < cycle_count

\* C38: after an Implementer cycle, failed or not, the current role is the
\* Refactorer: the cycle that follows, if one does, is the Refactorer's.
C38_RefactorerFollowsImplementer ==
    /\ [](AfterCycleOf("implementer") => current_agent = "refactorer")
    /\ [][(pc = "run_agent" /\ current_agent = "implementer"
           /\ entered_by # "")
            => entered_by = "continue"]_vars

C38_Witness ==
    /\ pc = "run_agent"
    /\ current_agent = "refactorer"
    /\ entered_by = "prep_refactor"

\* a stage or a commit is among the calls of the latest role invocation
GitIssued == \E i \in 1..Len(ops) : ops[i].op \in {"stage", "commit"}

\* C39: a cycle in which a stage or a commit is issued has succeeded, and
\* enable_git_staging is true.
C39_GitOnlyOnSuccessWithStaging ==
    (pc \in {"evaluate", "check_stop"} /\ GitIssued)
        => (outcome.success /\ enable_git_staging)

C39_Witness ==
    /\ CycleOf("implementer")
    /\ GitIssued
    /\ outcome.success
    /\ enable_git_staging

\* C40: once run() has returned at the cycle bound, a further call of run() on
\* the same workflow invokes no role and asks for no evaluation, leaves
\* current_agent, cycle_count and the penalties as they are, never enters the
\* loop body, and returns the same cycles_completed and final_agent.
C40_RunIsNotRestartable ==
    /\ [](returned # NoReturn => pc \in {"returned", "loop", "return"})
    /\ [][returned # NoReturn
            => /\ invocations' = invocations
               /\ <<eval_in, evaluation, failed_cycles>>'
                     = <<eval_in, evaluation, failed_cycles>>
               /\ <<current_agent, cycle_count, agent_penalties>>'
                     = <<current_agent, cycle_count, agent_penalties>>
               /\ returned'.cycles_completed = returned.cycles_completed
               /\ returned'.final_agent = returned.final_agent]_vars

\* the second call has returned, after a first one of MaxAgainCycles cycles
C40_Witness ==
    /\ pc = "returned"
    /\ returned.cycles_completed = MaxAgainCycles
    /\ invocations = MaxAgainCycles
    /\ Len(ops) >= 1
    /\ ops[1].op = "git rev-parse"

====
